---- MODULE Spec2Model ----
(***************************************************************************)
(* Model of the ledger engine of transaction_engine (src/src/main.rs):     *)
(* process_transactions consumes an ordered stream of records and keeps    *)
(* three tables: clients, transaction_records, disputed_transaction.       *)
(* Amounts are exact decimals; they are modelled as integers counting      *)
(* units of 0.0001.                                                        *)
(***************************************************************************)
EXTENDS Integers, FiniteSets, Sequences, TLC

\* ---------------------------------------------------------------- bounds
MaxClient == 2
MaxTx == 2
MaxAmount == 1
MaxEvents == 5

ClientIds == 1..MaxClient
TxIds == 1..MaxTx
Amounts == 0..MaxAmount

\* Option<Decimal>::None
None == -1
AmountOpt == Amounts \cup {None}

\* Decimal::MAX. A Decimal holds a 96-bit magnitude, and + and - on Decimal
\* panic when the result does not fit. The model keeps the limit and scales
\* it down to a number far above every sum of the amounts in Amounts.
DecimalMax == 1000000

InRange(x) == x <= DecimalMax /\ x >= -DecimalMax

\* ------------------------------------------------------------ data types
TransactionType == {"Deposit", "Withdrawal", "Dispute", "Resolve", "Chargeback"}

\* A parsed record of the input stream (struct Transaction).
Transaction(k, c, t, a) == [kind |-> k, client_id |-> c, id |-> t, amount |-> a]

\* Client::default()
DefaultClient == [available_funds |-> 0, held_funds |-> 0, total_funds |-> 0, locked |-> FALSE]

\* struct TransactionRecord
TransactionRecord(c, a, k) == [client_id |-> c, amount |-> a, transaction_type |-> k]

\* The three tables as one value, so that a handler is a function of them.
Tables(cl, tr, dt) == [clients |-> cl, transaction_records |-> tr, disputed_transaction |-> dt]

VARIABLES clients, transaction_records, disputed_transaction, processed, pc, last, charged_back

vars == <<clients, transaction_records, disputed_transaction, processed, pc, last, charged_back>>

Cur == Tables(clients, transaction_records, disputed_transaction)

\* HashMap::insert: the value stored under k is replaced.
Insert(m, k, v) == [x \in (DOMAIN m) \cup {k} |-> IF x = k THEN v ELSE m[x]]

\* clients.entry(client_id).or_default()
Entry(cl, c) == IF c \in DOMAIN cl THEN cl ELSE Insert(cl, c, DefaultClient)

\* The account a client id stands for: the stored one, or the default one
\* that the first event carrying the id will create.
Account(cl, c) == IF c \in DOMAIN cl THEN cl[c] ELSE DefaultClient

\* Variant: the gate never closes.
LockedGate_Open(s, e) == FALSE

\* if client.locked { continue; }
LockedGate(s, e) == e.client_id \in DOMAIN s.clients /\ s.clients[e.client_id].locked

\* ------------------------------------------------------------ Deposit arm
\* Variant: the used-id check is missing.
DepositApplies_NoDuplicateCheck(s, e) ==
    /\ e.amount # None

\* Variant: only records of earlier deposits count as a used id.
DepositApplies_OnlyDepositRecords(s, e) ==
    /\ ~(e.id \in DOMAIN s.transaction_records
          /\ s.transaction_records[e.id].transaction_type = "Deposit")
    /\ e.amount # None

DepositApplies(s, e) ==
    /\ e.id \notin DOMAIN s.transaction_records
    /\ e.amount # None

DepositArm(s, e) ==
    IF ~DepositApplies(s, e) THEN s
    ELSE [s EXCEPT
            !.clients[e.client_id].available_funds = @ + e.amount,
            !.clients[e.client_id].total_funds = @ + e.amount,
            !.transaction_records = Insert(@, e.id, TransactionRecord(e.client_id, e.amount, e.kind))]

\* --------------------------------------------------------- Withdrawal arm
\* Variant: the sufficient-funds check is missing.
WithdrawalApplies_NoFundsCheck(s, e) ==
    /\ e.id \notin DOMAIN s.transaction_records
    /\ e.amount # None

\* Variant: a withdrawal of the whole available amount is refused.
WithdrawalApplies_StrictFundsCheck(s, e) ==
    /\ e.id \notin DOMAIN s.transaction_records
    /\ e.amount # None
    /\ ~(s.clients[e.client_id].available_funds <= e.amount)

WithdrawalApplies(s, e) ==
    /\ e.id \notin DOMAIN s.transaction_records
    /\ e.amount # None
    /\ ~(s.clients[e.client_id].available_funds < e.amount)

\* Variant: a withdrawal refused for insufficient funds still stores its record.
WithdrawalArm_RecordsRefused(s, e) ==
    IF ~WithdrawalApplies(s, e)
    THEN IF e.id \notin DOMAIN s.transaction_records /\ e.amount # None
         THEN [s EXCEPT !.transaction_records =
                  Insert(@, e.id, TransactionRecord(e.client_id, e.amount, e.kind))]
         ELSE s
    ELSE [s EXCEPT
            !.clients[e.client_id].available_funds = @ - e.amount,
            !.clients[e.client_id].total_funds = @ - e.amount,
            !.transaction_records = Insert(@, e.id, TransactionRecord(e.client_id, e.amount, e.kind))]

\* Variant: the withdrawal stores no record.
WithdrawalArm_NoRecord(s, e) ==
    IF ~WithdrawalApplies(s, e) THEN s
    ELSE [s EXCEPT
            !.clients[e.client_id].available_funds = @ - e.amount,
            !.clients[e.client_id].total_funds = @ - e.amount]

WithdrawalArm(s, e) ==
    IF ~WithdrawalApplies(s, e) THEN s
    ELSE [s EXCEPT
            !.clients[e.client_id].available_funds = @ - e.amount,
            !.clients[e.client_id].total_funds = @ - e.amount,
            !.transaction_records = Insert(@, e.id, TransactionRecord(e.client_id, e.amount, e.kind))]

\* ------------------------------------------------------------ Dispute arm
\* Variant: the record's transaction type is not checked.
DisputeApplies_AnyRecordType(s, e) ==
    /\ e.id \notin s.disputed_transaction
    /\ e.id \in DOMAIN s.transaction_records
    /\ ~(s.transaction_records[e.id].client_id # e.client_id)
    /\ ~(s.clients[e.client_id].available_funds < s.transaction_records[e.id].amount)

\* Variant: the available funds are not compared with the recorded amount.
DisputeApplies_NoFundsCheck(s, e) ==
    /\ e.id \notin s.disputed_transaction
    /\ e.id \in DOMAIN s.transaction_records
    /\ ~(\/ s.transaction_records[e.id].client_id # e.client_id
         \/ s.transaction_records[e.id].transaction_type # "Deposit")

DisputeApplies(s, e) ==
    /\ e.id \notin s.disputed_transaction
    /\ e.id \in DOMAIN s.transaction_records
    /\ ~(\/ s.transaction_records[e.id].client_id # e.client_id
         \/ s.transaction_records[e.id].transaction_type # "Deposit")
    /\ ~(s.clients[e.client_id].available_funds < s.transaction_records[e.id].amount)

DisputeArm(s, e) ==
    IF ~DisputeApplies(s, e) THEN s
    ELSE [s EXCEPT
            !.clients[e.client_id].available_funds = @ - s.transaction_records[e.id].amount,
            !.clients[e.client_id].held_funds = @ + s.transaction_records[e.id].amount,
            !.disputed_transaction = @ \cup {e.id}]

\* ------------------------------------------------------------ Resolve arm
\* Variant: the record's client id is not compared with the event's.
ResolveApplies_NoOwnerCheck(s, e) ==
    /\ e.id \in s.disputed_transaction
    /\ e.id \in DOMAIN s.transaction_records

ResolveApplies(s, e) ==
    /\ e.id \in s.disputed_transaction
    /\ e.id \in DOMAIN s.transaction_records
    /\ ~(s.transaction_records[e.id].client_id # e.client_id)

\* Variant: the held funds are not released.
ResolveArm_KeepsHeld(s, e) ==
    IF ~ResolveApplies(s, e) THEN s
    ELSE [s EXCEPT
            !.clients[e.client_id].available_funds = @ + s.transaction_records[e.id].amount,
            !.disputed_transaction = @ \ {e.id}]

\* Variant: the resolve locks the account.
ResolveArm_Locks(s, e) ==
    IF ~ResolveApplies(s, e) THEN s
    ELSE [s EXCEPT
            !.clients[e.client_id].available_funds = @ + s.transaction_records[e.id].amount,
            !.clients[e.client_id].held_funds = @ - s.transaction_records[e.id].amount,
            !.clients[e.client_id].locked = TRUE,
            !.disputed_transaction = @ \ {e.id}]

\* Variant: the id stays in the disputed set.
ResolveArm_KeepsDisputed(s, e) ==
    IF ~ResolveApplies(s, e) THEN s
    ELSE [s EXCEPT
            !.clients[e.client_id].available_funds = @ + s.transaction_records[e.id].amount,
            !.clients[e.client_id].held_funds = @ - s.transaction_records[e.id].amount]

ResolveArm(s, e) ==
    IF ~ResolveApplies(s, e) THEN s
    ELSE [s EXCEPT
            !.clients[e.client_id].available_funds = @ + s.transaction_records[e.id].amount,
            !.clients[e.client_id].held_funds = @ - s.transaction_records[e.id].amount,
            !.disputed_transaction = @ \ {e.id}]

\* --------------------------------------------------------- Chargeback arm
\* Variant: the id is not looked up in the disputed set.
ChargebackApplies_NoDisputedCheck(s, e) ==
    /\ e.id \in DOMAIN s.transaction_records

ChargebackApplies(s, e) ==
    /\ e.id \in s.disputed_transaction
    /\ e.id \in DOMAIN s.transaction_records

\* Variant: the total is not reduced.
ChargebackArm_KeepsTotal(s, e) ==
    IF ~ChargebackApplies(s, e) THEN s
    ELSE [s EXCEPT
            !.clients[e.client_id].held_funds = @ - s.transaction_records[e.id].amount,
            !.clients[e.client_id].locked = TRUE,
            !.disputed_transaction = @ \ {e.id}]

\* Variant: the account of the record's client is charged and locked.
ChargebackArm_OnOwner(s, e) ==
    IF ~ChargebackApplies(s, e) THEN s
    ELSE LET o == s.transaction_records[e.id].client_id IN
         [s EXCEPT
            !.clients[o].held_funds = @ - s.transaction_records[e.id].amount,
            !.clients[o].total_funds = @ - s.transaction_records[e.id].amount,
            !.clients[o].locked = TRUE,
            !.disputed_transaction = @ \ {e.id}]

ChargebackArm(s, e) ==
    IF ~ChargebackApplies(s, e) THEN s
    ELSE [s EXCEPT
            !.clients[e.client_id].held_funds = @ - s.transaction_records[e.id].amount,
            !.clients[e.client_id].total_funds = @ - s.transaction_records[e.id].amount,
            !.clients[e.client_id].locked = TRUE,
            !.disputed_transaction = @ \ {e.id}]

\* ------------------------------------------- one iteration of the for loop
\* The account is created first, then the locked gate, then the match.
WithEntry(s, e) == [s EXCEPT !.clients = Entry(s.clients, e.client_id)]

Applies(s, e) ==
    /\ ~LockedGate(s, e)
    /\ CASE e.kind = "Deposit" -> DepositApplies(WithEntry(s, e), e)
         [] e.kind = "Withdrawal" -> WithdrawalApplies(WithEntry(s, e), e)
         [] e.kind = "Dispute" -> DisputeApplies(WithEntry(s, e), e)
         [] e.kind = "Resolve" -> ResolveApplies(WithEntry(s, e), e)
         [] e.kind = "Chargeback" -> ChargebackApplies(WithEntry(s, e), e)

\* Variant: the account is created only by an event that is applied.
ProcessRecord_EntryWhenApplied(s, e) ==
    IF ~Applies(s, e) THEN s
    ELSE CASE e.kind = "Deposit" -> DepositArm(WithEntry(s, e), e)
           [] e.kind = "Withdrawal" -> WithdrawalArm(WithEntry(s, e), e)
           [] e.kind = "Dispute" -> DisputeArm(WithEntry(s, e), e)
           [] e.kind = "Resolve" -> ResolveArm(WithEntry(s, e), e)
           [] e.kind = "Chargeback" -> ChargebackArm(WithEntry(s, e), e)

ProcessRecord(s, e) ==
    IF LockedGate(s, e) THEN WithEntry(s, e)
    ELSE CASE e.kind = "Deposit" -> DepositArm(WithEntry(s, e), e)
           [] e.kind = "Withdrawal" -> WithdrawalArm(WithEntry(s, e), e)
           [] e.kind = "Dispute" -> DisputeArm(WithEntry(s, e), e)
           [] e.kind = "Resolve" -> ResolveArm(WithEntry(s, e), e)
           [] e.kind = "Chargeback" -> ChargebackArm(WithEntry(s, e), e)

\* The arithmetic of the arm that e reaches leaves the range of Decimal:
\* the += or -= panics and the run is aborted.
Overflows(s, e) ==
    LET a == Account(s.clients, e.client_id)
        r == s.transaction_records[e.id]
    IN  CASE e.kind = "Deposit" ->
               /\ e.amount # None
               /\ ~InRange(a.available_funds + e.amount) \/ ~InRange(a.total_funds + e.amount)
               /\ Applies(s, e)
          [] e.kind = "Withdrawal" ->
               /\ e.amount # None
               /\ ~InRange(a.available_funds - e.amount) \/ ~InRange(a.total_funds - e.amount)
               /\ Applies(s, e)
          [] e.kind = "Dispute" ->
               /\ e.id \in DOMAIN s.transaction_records
               /\ ~InRange(a.available_funds - r.amount) \/ ~InRange(a.held_funds + r.amount)
               /\ Applies(s, e)
          [] e.kind = "Resolve" ->
               /\ e.id \in DOMAIN s.transaction_records
               /\ ~InRange(a.available_funds + r.amount) \/ ~InRange(a.held_funds - r.amount)
               /\ Applies(s, e)
          [] e.kind = "Chargeback" ->
               /\ e.id \in DOMAIN s.transaction_records
               /\ ~InRange(a.held_funds - r.amount) \/ ~InRange(a.total_funds - r.amount)
               /\ Applies(s, e)

\* ------------------------------------------------------------------ Init
\* The stream holds MaxEvents records (parsed ones and Err ones; a shorter
\* stream leaves the tables as the same stream followed by Err records does).
\* `processed` counts the records consumed so far.
\* `pc` is "loop" while records remain, "done" once Ok(clients) is returned
\* and "panic" once an arithmetic panic has aborted the run.
\* `last` is the final record of the stream, with whether it reached the end
\* of its match arm (applied) or hit a `continue`; it is written by the
\* iteration that consumes that record and holds NoEvent before.
\* `charged_back` holds the ids for which a Chargeback was ever applied.
\* `last` and `charged_back` are history variables: no handler reads them.
NoEvent == [kind |-> "None", client_id |-> 0, id |-> 0, amount |-> None, applied |-> FALSE]

Init ==
    /\ clients = <<>>
    /\ transaction_records = <<>>
    /\ disputed_transaction = {}
    /\ processed = 0
    /\ pc = "loop"
    /\ last = NoEvent
    /\ charged_back = {}

\* --------------------------------------------------------------- actions
\* for record in records: the iterator has another record.
HasNext == pc = "loop" /\ processed < MaxEvents

\* After the final record the iterator is exhausted and the function returns
\* Ok(clients); nothing happens between the two.
AfterRecord == IF processed' = MaxEvents THEN "done" ELSE "loop"

\* The thread panics inside the arm: the tables are dropped with the stack
\* and nothing is returned.
Panic ==
    /\ pc' = "panic"
    /\ UNCHANGED <<clients, transaction_records, disputed_transaction, processed, last,
                   charged_back>>

Handle(e) ==
    IF Overflows(Cur, e) THEN Panic
    ELSE
    /\ LET n == ProcessRecord(Cur, e) IN
         /\ clients' = n.clients
         /\ transaction_records' = n.transaction_records
         /\ disputed_transaction' = n.disputed_transaction
    /\ processed' = processed + 1
    /\ last' = IF processed' = MaxEvents
                THEN [kind |-> e.kind, client_id |-> e.client_id, id |-> e.id,
                      amount |-> e.amount, applied |-> Applies(Cur, e)]
                ELSE NoEvent
    /\ charged_back' = IF e.kind = "Chargeback" /\ Applies(Cur, e)
                         THEN charged_back \cup {e.id} ELSE charged_back
    /\ pc' = AfterRecord

Deposit ==
    /\ HasNext
    /\ \E c \in ClientIds, t \in TxIds, a \in AmountOpt : Handle(Transaction("Deposit", c, t, a))

Withdrawal ==
    /\ HasNext
    /\ \E c \in ClientIds, t \in TxIds, a \in AmountOpt : Handle(Transaction("Withdrawal", c, t, a))

Dispute ==
    /\ HasNext
    /\ \E c \in ClientIds, t \in TxIds : Handle(Transaction("Dispute", c, t, None))

Resolve ==
    /\ HasNext
    /\ \E c \in ClientIds, t \in TxIds : Handle(Transaction("Resolve", c, t, None))

Chargeback ==
    /\ HasNext
    /\ \E c \in ClientIds, t \in TxIds : Handle(Transaction("Chargeback", c, t, None))

\* Err(e) => continue: the record is consumed and nothing else happens.
ErrRecord ==
    /\ HasNext
    /\ processed' = processed + 1
    /\ last' = IF processed' = MaxEvents
                THEN [kind |-> "Err", client_id |-> 0, id |-> 0, amount |-> None, applied |-> FALSE]
                ELSE NoEvent
    /\ pc' = AfterRecord
    /\ UNCHANGED <<clients, transaction_records, disputed_transaction, charged_back>>

Next == Deposit \/ Withdrawal \/ Dispute \/ Resolve \/ Chargeback \/ ErrRecord

Spec == Init /\ [][Next]_vars

\* The same loop fed with streams that also hold amounts of Decimal::MAX.
DepositMax ==
    /\ HasNext
    /\ \E c \in ClientIds, t \in TxIds : Handle(Transaction("Deposit", c, t, DecimalMax))

WithdrawalMax ==
    /\ HasNext
    /\ \E c \in ClientIds, t \in TxIds : Handle(Transaction("Withdrawal", c, t, DecimalMax))

NextMax == Next \/ DepositMax \/ WithdrawalMax

SpecMax == Init /\ [][NextMax]_vars

\* ================================================================ claims
\* The step that consumes the final record of the stream, a parsed one.
\* Every table state reachable with fewer than MaxEvents records is also
\* reached (through Err records) right before this step, so a rule stated
\* for this step is checked for every such state and every event.
Consumed == processed' # processed /\ last'.kind \in TransactionType

\* No stored account changes and an account created by the step is the default one.
BalancesUnchanged == \A c \in DOMAIN clients' : clients'[c] = Account(clients, c)

\* C1: in every reachable state, for every client,
\* total_funds = available_funds + held_funds.
TotalIsAvailablePlusHeld ==
    \A c \in DOMAIN clients :
        clients[c].total_funds = clients[c].available_funds + clients[c].held_funds

\* C1 witness: a chargeback has just been applied to an account that still
\* holds funds and has available funds.
TotalIsAvailablePlusHeldWitness ==
    /\ last.kind = "Chargeback" /\ last.applied
    /\ transaction_records[last.id].amount > 0
    /\ clients[last.client_id].available_funds > 0
    /\ clients[last.client_id].total_funds > 0

\* C2: held_funds >= 0 for every client in every reachable state (amounts of
\* deposits and withdrawals are non-negative in this model).
HeldNonNegative == \A c \in DOMAIN clients : clients[c].held_funds >= 0

\* C3: available_funds >= 0 for every client in every reachable state.
AvailableNonNegative == \A c \in DOMAIN clients : clients[c].available_funds >= 0

\* C3 witness: a client deposited, emptied the account, and its withdrawal
\* with a fresh id was skipped because the amount exceeds the available funds.
AvailableNonNegativeWitness ==
    /\ last.kind = "Withdrawal" /\ ~last.applied
    /\ last.amount # None
    /\ last.id \notin DOMAIN transaction_records
    /\ ~clients[last.client_id].locked
    /\ last.amount > clients[last.client_id].available_funds
    /\ \E t \in DOMAIN transaction_records :
          /\ transaction_records[t].client_id = last.client_id
          /\ transaction_records[t].amount > 0

\* C4: once a client is locked no step changes its account, and a step that
\* consumes an event carrying a locked client's id changes none of the tables.
LockIsPermanent ==
    [][ /\ \A c \in DOMAIN clients :
              clients[c].locked => c \in DOMAIN clients' /\ clients'[c] = clients[c]
        /\ (Consumed /\ Account(clients, last'.client_id).locked)
              => UNCHANGED <<clients, transaction_records, disputed_transaction>> ]_vars

\* C4 witness: a deposit with an amount and a fresh id was consumed for a
\* locked client (a deposit never locks, so the client was locked before it).
LockIsPermanentWitness ==
    /\ last.kind = "Deposit"
    /\ last.amount # None /\ last.amount > 0
    /\ last.id \notin DOMAIN transaction_records
    /\ clients[last.client_id].locked

\* C5: a chargeback that changes state carries the client id of the owner of
\* the disputed deposit, and changes the account of no other client.
ChargebackActsOnOwner ==
    [][ (Consumed /\ last'.kind = "Chargeback"
            /\ <<clients, transaction_records, disputed_transaction>>'
                 # <<clients, transaction_records, disputed_transaction>>
            /\ last'.id \in DOMAIN transaction_records)
        => \A c \in DOMAIN clients' :
              c # transaction_records[last'.id].client_id
                 => clients'[c] = Account(clients, c) ]_vars

\* C6: a transaction id for which a chargeback was applied is never in the
\* disputed set again.
ChargedBackIsTerminal == charged_back \cap disputed_transaction = {}

\* C7: every disputed id has a stored record made by a deposit, and an id
\* enters the disputed set only by a Dispute event of the record's owner.
DisputedAreOwnDeposits ==
    /\ [](\A t \in disputed_transaction :
            /\ t \in DOMAIN transaction_records
            /\ transaction_records[t].transaction_type = "Deposit")
    /\ [][ Consumed =>
            \A t \in disputed_transaction' \ disputed_transaction :
               /\ last'.kind = "Dispute" /\ last'.id = t
               /\ t \in DOMAIN transaction_records'
               /\ transaction_records'[t].client_id = last'.client_id ]_vars

\* C7 witness: while a deposit is under dispute, the owner of a withdrawal's
\* record disputed that withdrawal and the event was skipped.
DisputedAreOwnDepositsWitness ==
    /\ disputed_transaction # {}
    /\ last.kind = "Dispute" /\ ~last.applied
    /\ last.id \in DOMAIN transaction_records
    /\ transaction_records[last.id].transaction_type = "Withdrawal"
    /\ transaction_records[last.id].client_id = last.client_id
    /\ ~clients[last.client_id].locked

\* C8: a Deposit or Withdrawal whose id already has a stored record changes
\* no balance, no stored record and not the disputed set.
DuplicateIdIsNoOp ==
    [][ (Consumed /\ last'.kind \in {"Deposit", "Withdrawal"}
            /\ last'.id \in DOMAIN transaction_records)
        => /\ BalancesUnchanged
           /\ transaction_records' = transaction_records
           /\ disputed_transaction' = disputed_transaction ]_vars

\* C8 witness: an unlocked client with sufficient funds sent a Deposit or
\* Withdrawal with an amount under an id whose record holds another amount.
DuplicateIdIsNoOpWitness ==
    /\ last.kind \in {"Deposit", "Withdrawal"} /\ ~last.applied
    /\ last.amount # None
    /\ last.id \in DOMAIN transaction_records
    /\ transaction_records[last.id].amount # last.amount
    /\ ~clients[last.client_id].locked
    /\ clients[last.client_id].available_funds >= last.amount

\* C9: wherever the stream has two more records and Dispute(c, t) is
\* accepted, Resolve(c, t) right after it is accepted, restores available and
\* held, removes t from the disputed set, and total is the same before,
\* between and after.
DisputeResolveRoundTrip ==
    (pc = "loop" /\ processed + 2 <= MaxEvents) =>
    \A c \in ClientIds, t \in TxIds :
        LET d == Transaction("Dispute", c, t, None)
            r == Transaction("Resolve", c, t, None)
            s1 == ProcessRecord(Cur, d)
            s2 == ProcessRecord(s1, r)
        IN  Applies(Cur, d) =>
              /\ t \in s1.disputed_transaction
              /\ Applies(s1, r)
              /\ s2.clients[c].available_funds = clients[c].available_funds
              /\ s2.clients[c].held_funds = clients[c].held_funds
              /\ t \notin s2.disputed_transaction
              /\ s1.clients[c].total_funds = clients[c].total_funds
              /\ s2.clients[c].total_funds = clients[c].total_funds

\* C9 witness: the stream ended with an applied Resolve of a positive
\* deposit and the account is back at its pre-dispute balances.
DisputeResolveRoundTripWitness ==
    /\ last.kind = "Resolve" /\ last.applied
    /\ transaction_records[last.id].amount > 0
    /\ clients[last.client_id].available_funds = transaction_records[last.id].amount
    /\ clients[last.client_id].held_funds = 0
    /\ last.id \notin disputed_transaction

\* Effects of a Deposit step on the tables.
DepositApplied ==
    LET c == last'.client_id
        old == Account(clients, c)
    IN  /\ clients'[c] = [old EXCEPT !.available_funds = @ + last'.amount,
                                      !.total_funds = @ + last'.amount]
        /\ last'.id \in DOMAIN transaction_records' \ DOMAIN transaction_records

DepositSkipped ==
    /\ BalancesUnchanged
    /\ transaction_records' = transaction_records

\* C10 as stated: a Deposit for an unlocked client is applied iff its amount
\* is present and no record of a Deposit is stored under its id.
DepositRuleAsStated ==
    [][ (Consumed /\ last'.kind = "Deposit" /\ ~Account(clients, last'.client_id).locked)
        => IF /\ last'.amount # None
              /\ ~(/\ last'.id \in DOMAIN transaction_records
                   /\ transaction_records[last'.id].transaction_type = "Deposit")
           THEN DepositApplied
           ELSE DepositSkipped ]_vars

\* C10 amended: a Deposit for an unlocked client is applied iff its amount is
\* present and no record at all (of a Deposit or of a Withdrawal) is stored
\* under its id; applied, available and total grow by the amount and held
\* and locked stay; skipped, no balance changes.
DepositRule ==
    [][ (Consumed /\ last'.kind = "Deposit" /\ ~Account(clients, last'.client_id).locked)
        => IF last'.amount # None /\ last'.id \notin DOMAIN transaction_records
           THEN DepositApplied
           ELSE DepositSkipped ]_vars

\* C10 witness: an unlocked client's Deposit with a positive amount was
\* skipped because its id is the id of a stored withdrawal.
DepositRuleWitness ==
    /\ last.kind = "Deposit" /\ ~last.applied
    /\ last.amount # None /\ last.amount > 0
    /\ last.id \in DOMAIN transaction_records
    /\ transaction_records[last.id].transaction_type = "Withdrawal"
    /\ ~clients[last.client_id].locked

\* The step changes no account but that of the client the record carries.
OthersUnchanged ==
    \A d \in DOMAIN clients' : d # last'.client_id => clients'[d] = Account(clients, d)

\* C11 as stated: an applied Withdrawal changes only the available and total
\* of its own client, stores no record and leaves the disputed set, so that
\* every stored record is the record of an applied deposit.
WithdrawalStoresNoRecord ==
    /\ [](\A t \in DOMAIN transaction_records :
             transaction_records[t].transaction_type = "Deposit")
    /\ [][ (Consumed /\ last'.kind = "Withdrawal" /\ last'.applied)
           => /\ OthersUnchanged
              /\ transaction_records' = transaction_records
              /\ disputed_transaction' = disputed_transaction ]_vars

\* C11 amended: an applied Withdrawal changes only the available and total of
\* its own client, leaves the disputed set, and stores exactly one record, of
\* type Withdrawal, under its own id; every stored record is the record of an
\* applied Deposit or of an applied Withdrawal, and no other event changes
\* the record table.
WithdrawalStoresWithdrawalRecord ==
    /\ [](\A t \in DOMAIN transaction_records :
             transaction_records[t].transaction_type \in {"Deposit", "Withdrawal"})
    /\ [][ Consumed =>
           IF last'.kind \in {"Deposit", "Withdrawal"} /\ last'.applied
           THEN /\ last'.id \notin DOMAIN transaction_records
                /\ transaction_records' =
                     Insert(transaction_records, last'.id,
                            TransactionRecord(last'.client_id, last'.amount, last'.kind))
                /\ last'.kind = "Withdrawal" =>
                     /\ OthersUnchanged
                     /\ clients'[last'.client_id].held_funds =
                          Account(clients, last'.client_id).held_funds
                     /\ clients'[last'.client_id].locked =
                          Account(clients, last'.client_id).locked
                     /\ disputed_transaction' = disputed_transaction
           ELSE transaction_records' = transaction_records ]_vars

\* C11 witness: the stream ended with an applied Withdrawal of a positive
\* amount, whose record of type Withdrawal is stored under its id.
WithdrawalStoresWithdrawalRecordWitness ==
    /\ last.kind = "Withdrawal" /\ last.applied
    /\ last.amount > 0
    /\ last.id \in DOMAIN transaction_records
    /\ transaction_records[last.id] =
         TransactionRecord(last.client_id, last.amount, "Withdrawal")

\* C12: a Withdrawal with no amount or with amount > available changes no
\* balance; a Withdrawal of an unlocked client with a fresh id and
\* amount <= available (also amount = available) lowers available and total
\* by the amount and leaves held.
WithdrawalFundsCheck ==
    [][ (Consumed /\ last'.kind = "Withdrawal") =>
        LET old == Account(clients, last'.client_id) IN
        /\ (last'.amount = None \/ last'.amount > old.available_funds) => BalancesUnchanged
        /\ (/\ ~old.locked
            /\ last'.id \notin DOMAIN transaction_records
            /\ last'.amount # None
            /\ last'.amount <= old.available_funds)
           => clients'[last'.client_id] =
                [old EXCEPT !.available_funds = @ - last'.amount,
                            !.total_funds = @ - last'.amount] ]_vars

\* C12 witness: the stream ended with an applied Withdrawal of the client's
\* whole, positive, available amount.
WithdrawalFundsCheckWitness ==
    /\ last.kind = "Withdrawal" /\ last.applied
    /\ last.amount > 0
    /\ clients[last.client_id].available_funds = 0
    /\ clients[last.client_id].total_funds = clients[last.client_id].held_funds

\* C13: a Dispute or Resolve whose client id is not the client id of the
\* record under its transaction id changes no balance of any client and
\* does not change the disputed set.
ForeignDisputeResolveIsNoOp ==
    [][ (/\ Consumed /\ last'.kind \in {"Dispute", "Resolve"}
         /\ last'.id \in DOMAIN transaction_records
         /\ transaction_records[last'.id].client_id # last'.client_id)
        => /\ BalancesUnchanged
           /\ disputed_transaction' = disputed_transaction ]_vars

\* C13 witness: the stream ended with a Resolve sent by an unlocked client
\* for another client's deposit, which is still under dispute and held.
ForeignDisputeResolveIsNoOpWitness ==
    /\ last.kind = "Resolve" /\ ~last.applied
    /\ last.id \in disputed_transaction
    /\ transaction_records[last.id].client_id # last.client_id
    /\ transaction_records[last.id].amount > 0
    /\ ~clients[last.client_id].locked
    /\ clients[transaction_records[last.id].client_id].held_funds > 0

\* C14: a Dispute by the owning, unlocked client on an undisputed deposit is
\* accepted iff available >= the recorded amount; accepted, available falls
\* and held grows by the recorded amount, total and locked stay, and the id
\* enters the disputed set; otherwise nothing changes.
DisputeFundsCheck ==
    [][ (/\ Consumed /\ last'.kind = "Dispute"
         /\ last'.id \in DOMAIN transaction_records
         /\ transaction_records[last'.id].transaction_type = "Deposit"
         /\ transaction_records[last'.id].client_id = last'.client_id
         /\ ~Account(clients, last'.client_id).locked
         /\ last'.id \notin disputed_transaction)
        => LET old == Account(clients, last'.client_id)
               amount == transaction_records[last'.id].amount
           IN  /\ last'.applied <=> old.available_funds >= amount
               /\ transaction_records' = transaction_records
               /\ IF old.available_funds >= amount
                  THEN /\ clients'[last'.client_id] =
                            [old EXCEPT !.available_funds = @ - amount,
                                        !.held_funds = @ + amount]
                       /\ OthersUnchanged
                       /\ disputed_transaction' = disputed_transaction \cup {last'.id}
                  ELSE /\ clients' = clients
                       /\ disputed_transaction' = disputed_transaction ]_vars

\* C14 witness: the stream ended with a Dispute of the unlocked owner on an
\* undisputed deposit whose amount exceeds the available funds.
DisputeFundsCheckWitness ==
    /\ last.kind = "Dispute" /\ ~last.applied
    /\ last.id \in DOMAIN transaction_records
    /\ transaction_records[last.id].transaction_type = "Deposit"
    /\ transaction_records[last.id].client_id = last.client_id
    /\ ~clients[last.client_id].locked
    /\ last.id \notin disputed_transaction
    /\ clients[last.client_id].available_funds < transaction_records[last.id].amount

\* C15: a Dispute on an id already in the disputed set, a Dispute on an id
\* with no stored record, and a Resolve or Chargeback on an id not in the
\* disputed set leave all balances, all locked flags, the record table and
\* the disputed set.
DisputeStateGuards ==
    [][ (/\ Consumed
         /\ \/ last'.kind = "Dispute" /\ last'.id \in disputed_transaction
            \/ last'.kind = "Dispute" /\ last'.id \notin DOMAIN transaction_records
            \/ last'.kind \in {"Resolve", "Chargeback"} /\ last'.id \notin disputed_transaction)
        => /\ BalancesUnchanged
           /\ transaction_records' = transaction_records
           /\ disputed_transaction' = disputed_transaction ]_vars

\* C15 witness: the stream ended with a Chargeback of the unlocked owner on
\* its own positive deposit, which is not under dispute.
DisputeStateGuardsWitness ==
    /\ last.kind = "Chargeback" /\ ~last.applied
    /\ last.id \in DOMAIN transaction_records
    /\ last.id \notin disputed_transaction
    /\ last.id \notin charged_back
    /\ transaction_records[last.id].client_id = last.client_id
    /\ transaction_records[last.id].transaction_type = "Deposit"
    /\ transaction_records[last.id].amount > 0
    /\ ~clients[last.client_id].locked

\* C16: an applied Chargeback for the disputed id t lowers held and total by
\* t's recorded amount, leaves available, sets locked and removes only t from
\* the disputed set; every other id under dispute stays in the set, and if
\* its amount was within its owner's held funds it still is.
ChargebackEffect ==
    [][ (Consumed /\ last'.kind = "Chargeback" /\ last'.applied)
        => LET old == Account(clients, last'.client_id)
               amount == transaction_records[last'.id].amount
           IN  /\ clients'[last'.client_id] =
                    [old EXCEPT !.held_funds = @ - amount,
                                !.total_funds = @ - amount,
                                !.locked = TRUE]
               /\ disputed_transaction' = disputed_transaction \ {last'.id}
               /\ \A t \in disputed_transaction \ {last'.id} :
                     LET o == transaction_records[t].client_id IN
                     /\ t \in disputed_transaction'
                     /\ clients[o].held_funds >= transaction_records[t].amount
                          => clients'[o].held_funds >= transaction_records[t].amount ]_vars

\* C17: the run never fails: no stream of records, unparsable ones and
\* rule-violating events included, brings the function into a failed state.
RunNeverFails == pc # "panic"

\* C18: the mapping starts empty and the step that consumes a parsed record
\* adds exactly the account of its client id to it (an Err record adds
\* none), so the result holds an account for exactly the client ids of the
\* parsed events; an event that is skipped creates the account with zero
\* balances, unlocked, and changes no stored account, so a client all of
\* whose events were skipped has available = held = total = 0 and
\* locked = false.
ResultHoldsEveryClientSeen ==
    /\ clients = <<>>
    /\ [][ /\ Consumed =>
              /\ DOMAIN clients' = DOMAIN clients \cup {last'.client_id}
              /\ ~last'.applied => BalancesUnchanged
           /\ (processed' # processed /\ last'.kind = "Err") => clients' = clients ]_vars

\* C18 witness: the stream ended with a Dispute on another client's stored
\* deposit; its sender owns no record, and is in the result with the default
\* account.
ResultHoldsEveryClientSeenWitness ==
    /\ pc = "done"
    /\ last.kind = "Dispute" /\ ~last.applied
    /\ last.id \in DOMAIN transaction_records
    /\ \A t \in DOMAIN transaction_records : transaction_records[t].client_id # last.client_id
    /\ last.client_id \in DOMAIN clients
    /\ clients[last.client_id] = DefaultClient
    /\ clients[transaction_records[last.id].client_id].total_funds > 0

\* C19: an event carrying client id c changes the available, held, total and
\* locked of no client other than c, and removes no account.
OnlyOwnAccountChanges ==
    [][ Consumed => OthersUnchanged /\ DOMAIN clients \subseteq DOMAIN clients' ]_vars

\* C19 witness: the stream ended with an applied Chargeback whose sender is
\* not the owner of the deposit; the owner's account still holds the amount.
OnlyOwnAccountChangesWitness ==
    /\ last.kind = "Chargeback" /\ last.applied
    /\ transaction_records[last.id].client_id # last.client_id
    /\ transaction_records[last.id].amount > 0
    /\ clients[transaction_records[last.id].client_id].held_funds > 0
    /\ ~clients[transaction_records[last.id].client_id].locked
    /\ clients[last.client_id].locked

\* C20: an applied Dispute adds its own id to the disputed set, an applied
\* Resolve or Chargeback removes its own id from it, every other event
\* (Deposit, Withdrawal, skipped ones) leaves the set; and right after an
\* applied Resolve a Dispute of the same id by the owner is applied again
\* when the owner is unlocked and available >= the recorded amount.
DisputedSetTransitions ==
    [][ Consumed =>
        LET after == Tables(clients', transaction_records', disputed_transaction')
            d == Transaction("Dispute", last'.client_id, last'.id, None)
        IN  /\ disputed_transaction' =
                 IF last'.applied /\ last'.kind = "Dispute"
                 THEN disputed_transaction \cup {last'.id}
                 ELSE IF last'.applied /\ last'.kind \in {"Resolve", "Chargeback"}
                 THEN disputed_transaction \ {last'.id}
                 ELSE disputed_transaction
            /\ (last'.applied /\ last'.kind = "Dispute") => last'.id \notin disputed_transaction
            /\ (last'.applied /\ last'.kind \in {"Resolve", "Chargeback"})
                  => last'.id \in disputed_transaction
            /\ (/\ last'.applied /\ last'.kind = "Resolve"
                /\ ~clients'[last'.client_id].locked
                /\ clients'[last'.client_id].available_funds
                     >= transaction_records[last'.id].amount)
               => /\ Applies(after, d)
                  /\ last'.id \in ProcessRecord(after, d).disputed_transaction ]_vars

\* C20 witness: the stream ended with an applied Resolve of a positive
\* deposit, and in the tables it left a Dispute of the same id by the owner
\* is applied.
DisputedSetTransitionsWitness ==
    /\ last.kind = "Resolve" /\ last.applied
    /\ transaction_records[last.id].amount > 0
    /\ last.id \notin disputed_transaction
    /\ Applies(Cur, Transaction("Dispute", last.client_id, last.id, None))

\* The sum of the recorded amounts of the ids in T.
RECURSIVE SumOfAmounts(_)
SumOfAmounts(T) ==
    IF T = {} THEN 0
    ELSE LET t == CHOOSE x \in T : TRUE
         IN  transaction_records[t].amount + SumOfAmounts(T \ {t})

\* The ids under dispute whose record is owned by client c.
DisputedOf(c) ==
    {t \in disputed_transaction :
        t \in DOMAIN transaction_records /\ transaction_records[t].client_id = c}

\* C21: in every reachable state the held funds of each client are the sum
\* of the recorded amounts of the disputed ids whose record the client owns.
HeldIsSumOfDisputed ==
    \A c \in DOMAIN clients : clients[c].held_funds = SumOfAmounts(DisputedOf(c))

\* What the tables s hold of client c: its account, the records it owns and
\* the disputed ids among them. When transaction ids are unique these are
\* the tables of the run over the events carrying c alone.
View(s, c) ==
    LET own == {t \in DOMAIN s.transaction_records : s.transaction_records[t].client_id = c}
    IN  Tables([x \in DOMAIN s.clients \cap {c} |-> s.clients[x]],
               [t \in own |-> s.transaction_records[t]],
               s.disputed_transaction \cap own)

\* C22: when the ids of deposits and withdrawals are unique, the account of
\* a client depends only on the events carrying its id: an event of client
\* c acts on what the tables hold of c as it acts on that part alone, and
\* leaves what they hold of every other client.
ClientIndependence ==
    [][ (/\ Consumed
         /\ last'.kind \in {"Deposit", "Withdrawal"} =>
               \/ last'.id \notin DOMAIN transaction_records
               \/ transaction_records[last'.id].client_id = last'.client_id)
        => LET c == last'.client_id
               e == Transaction(last'.kind, c, last'.id, last'.amount)
               after == Tables(clients', transaction_records', disputed_transaction')
           IN  /\ View(after, c) = ProcessRecord(View(Cur, c), e)
               /\ \A d \in ClientIds \ {c} : View(after, d) = View(Cur, d) ]_vars

\* C23: a Deposit skipped for a missing amount, a Withdrawal skipped for a
\* missing amount or for insufficient funds, and a Deposit or Withdrawal of
\* a locked client store no record; if the id was fresh it still is, and a
\* Deposit with that id and an amount, of any unlocked client, is applied
\* right after.
SkippedEventKeepsIdFresh ==
    [][ (/\ Consumed /\ last'.kind \in {"Deposit", "Withdrawal"}
         /\ \/ last'.amount = None
            \/ /\ last'.kind = "Withdrawal"
               /\ last'.amount > Account(clients, last'.client_id).available_funds
            \/ Account(clients, last'.client_id).locked)
        => LET after == Tables(clients', transaction_records', disputed_transaction') IN
           /\ ~last'.applied
           /\ transaction_records' = transaction_records
           /\ last'.id \notin DOMAIN transaction_records =>
                \A c \in ClientIds :
                   ~Account(clients', c).locked
                      => Applies(after, Transaction("Deposit", c, last'.id, MaxAmount)) ]_vars

\* C23 witness: the stream ended with a Withdrawal without an amount, sent
\* under a fresh id by an unlocked client that has funds; the id is still
\* unused.
SkippedEventKeepsIdFreshWitness ==
    /\ last.kind = "Withdrawal" /\ ~last.applied
    /\ last.amount = None
    /\ last.id \notin DOMAIN transaction_records
    /\ ~clients[last.client_id].locked
    /\ clients[last.client_id].available_funds > 0

\* C24: the locked flag of a client (false for an account not yet created)
\* changes only from false to true, and only in the step of an applied
\* Chargeback that carries the client's id; no other event sets or clears it.
LockedOnlyByOwnChargeback ==
    [][ \A c \in DOMAIN clients' :
           /\ Account(clients, c).locked => clients'[c].locked
           /\ (Consumed /\ clients'[c].locked /\ ~Account(clients, c).locked)
                 => /\ last'.kind = "Chargeback"
                    /\ last'.applied
                    /\ last'.client_id = c ]_vars

\* C24 witness: the stream ended with an applied Chargeback of the owner of
\* a positive deposit, which locked the owner and emptied its held funds.
LockedOnlyByOwnChargebackWitness ==
    /\ last.kind = "Chargeback" /\ last.applied
    /\ transaction_records[last.id].client_id = last.client_id
    /\ transaction_records[last.id].amount > 0
    /\ clients[last.client_id].locked
    /\ clients[last.client_id].held_funds = 0
    /\ \E c \in DOMAIN clients : ~clients[c].locked

====
